---- MODULE Spec2Model ----
(***************************************************************************)
(* Session lifecycle of the chat application (App component): the React    *)
(* state (user, sessions, currentSessionId, isLoading), the asynchronous   *)
(* handlers that mutate it, and the Supabase rows they read and write.     *)
(* Every handler run is atomic up to its next await; each await is a       *)
(* separate step.  A handler reads `sessions` and `currentSessionId` from  *)
(* the render in which it was created, so an invocation keeps the values   *)
(* it saw when it was called (its closure) across its awaits.              *)
(* A render separates any two steps, so a handler called in a step sees    *)
(* the state that step starts from.  The select query of fetchSessions is  *)
(* one step that returns the rows as they are when it resolves; sign-out   *)
(* and its onAuthStateChange notification are one step.  Session ids are   *)
(* drawn from a counter, message ids are the call number and the role.     *)
(* Not modelled: view, isSidebarOpen, isSettingsOpen, timestamps           *)
(* (updatedAt, timestamp), which no handler reads back.                    *)
(***************************************************************************)
EXTENDS Integers, Sequences, FiniteSets, TLC

\* ---------------------------------------------------------------- bounds
MaxSends == 2
MaxNewChats == 1
MaxSignIns == 1
MaxSignOuts == 1
\* user and auth events (sends, new chats, sign-ins, sign-outs) in one run
MaxEvents == 3

\* ------------------------------------------------------------- constants
\* content.slice(0, 30)
TitleLen == 30

\* currentSessionId === null
NoSession == 0

\* title: 'New Chat'
NewChatTitle == <<"N", "e", "w", " ", "C", "h", "a", "t">>

\* the '...' appended to the provisional title
Ellipsis == <<".", ".", ".">>

\* Texts a send may carry: one shorter than the title length, one longer.
ShortContent == <<"h", "i">>
LongContent == [i \in 1..(TitleLen + 1) |-> IF i > TitleLen THEN "z" ELSE "a"]
Contents == {ShortContent, LongContent}

\* aiResponseText returned by sendMessageToGemini
ReplyText == <<"o", "k">>

\* ---------------------------------------------------------------- state
VARIABLES
  user,              \* React state `user` is non-null
  authed,            \* Supabase holds an authenticated session (getUser)
  sessions,          \* React state `sessions`
  currentSessionId,  \* React state `currentSessionId` (NoSession = null)
  isLoading,         \* React state `isLoading`
  db,                \* rows of table 'sessions', most recently updated first
  writes,            \* every upsert issued so far
  sends,             \* the handleSendMessage invocations
  saves,             \* the saveSessionToSupabase calls of handleNewChat
  fetches,           \* the fetchSessions runs
  nextId,            \* source of crypto.randomUUID() session ids
  nSignOuts          \* sign-outs so far

vars == <<user, authed, sessions, currentSessionId, isLoading, db, writes,
          sends, saves, fetches, nextId, nSignOuts>>

\* --------------------------------------------------------------- helpers
Min(a, b) == IF a < b THEN a ELSE b

\* String.prototype.slice(0, 30)
Slice30(content) == SubSeq(content, 1, Min(Len(content), TitleLen))

\* interface Message
Message(k, role, content) == [call |-> k, role |-> role, content |-> content]

\* interface ChatSession
ChatSession(id, title, messages) ==
  [id |-> id, title |-> title, messages |-> messages]

NullSession == ChatSession(NoSession, <<>>, <<>>)

Ids(list) == {list[i].id : i \in 1..Len(list)}

\* sessions.find(s => s.id === id); Has tells whether find returns a value
Has(list, id) == id \in Ids(list)
Find(list, id) ==
  list[CHOOSE i \in 1..Len(list) :
         list[i].id = id /\ \A j \in 1..(i - 1) : list[j].id # id]

\* MapReplace, were the updated session moved to the front of the list
MapReplaceResorts(list, id, session) ==
  IF id \in Ids(list)
    THEN <<session>> \o SelectSeq(list, LAMBDA s : s.id # id)
    ELSE list

\* prev.map(s => s.id === id ? session : s)
MapReplace(list, id, session) ==
  [i \in 1..Len(list) |-> IF list[i].id = id THEN session ELSE list[i]]

\* upsert by id; the row gets updated_at = now, so it reads back first
RECURSIVE Without(_, _)
Without(list, id) ==
  IF list = <<>> THEN <<>>
  ELSE IF Head(list).id = id THEN Without(Tail(list), id)
  ELSE <<Head(list)>> \o Without(Tail(list), id)

Upsert(rows, session) == <<session>> \o Without(rows, session.id)

\* const currentSession = sessions.find(s => s.id === currentSessionId)
HasCurrentSession == Has(sessions, currentSessionId)
currentSession == Find(sessions, currentSessionId)

\* the quick-start cards are rendered
CardsVisible ==
  IF HasCurrentSession THEN Len(currentSession.messages) = 0 ELSE TRUE

IdleSend == [pc |-> "idle", content |-> <<>>, activeSessionId |-> NoSession,
             created |-> FALSE, snap |-> <<>>, session |-> NullSession,
             outcome |-> "none"]
IdleSave == [pc |-> "none", session |-> NullSession]
IdleFetch == [pc |-> "none", cur |-> NoSession]

\* events taken so far, out of MaxEvents
Events ==
  Cardinality({k \in 1..MaxSends : sends[k].pc # "idle"})
    + Cardinality({n \in 1..MaxNewChats : saves[n].pc # "none"})
    + Cardinality({f \in 1..MaxSignIns : fetches[f].pc # "none"})
    + nSignOuts

\* ------------------------------------------------------------------ Init
Init ==
  /\ user = FALSE
  /\ authed = FALSE
  /\ sessions = <<>>
  /\ currentSessionId = NoSession
  /\ isLoading = FALSE
  /\ db = <<>>
  /\ writes = {}
  /\ sends = [k \in 1..MaxSends |-> IdleSend]
  /\ saves = [n \in 1..MaxNewChats |-> IdleSave]
  /\ fetches = [f \in 1..MaxSignIns |-> IdleFetch]
  /\ nextId = 1
  /\ nSignOuts = 0

\* A signed-in user whose bulk load returned no rows.
InitSends ==
  /\ user = TRUE
  /\ authed = TRUE
  /\ sessions = <<>>
  /\ currentSessionId = NoSession
  /\ isLoading = FALSE
  /\ db = <<>>
  /\ writes = {}
  /\ sends = [k \in 1..MaxSends |-> IdleSend]
  /\ saves = [n \in 1..MaxNewChats |-> IdleSave]
  /\ fetches = [f \in 1..MaxSignIns |-> IdleFetch]
  /\ nextId = 1
  /\ nSignOuts = 0

\* ------------------------------------------------------------------ auth
\* onAuthStateChange with a session (sign-in, token refresh) and the
\* getSession().then at mount: setUser(new object), which re-runs the
\* [user] effect and starts fetchSessions with this render's
\* currentSessionId.
AuthSignedIn ==
  \E f \in 1..MaxSignIns :
    /\ Events < MaxEvents
    /\ fetches[f].pc = "none"
    /\ \A g \in 1..(f - 1) : fetches[g].pc # "none"
    /\ authed' = TRUE
    /\ user' = TRUE
    /\ fetches' = [fetches EXCEPT ![f] =
                     [pc |-> "sent", cur |-> currentSessionId]]
    /\ UNCHANGED <<sessions, currentSessionId, isLoading, db, writes, sends,
                   saves, nextId, nSignOuts>>

\* handleSignOut -> supabase.auth.signOut() -> onAuthStateChange(null)
AuthSignedOut ==
  /\ user
  /\ Events < MaxEvents
  /\ nSignOuts < MaxSignOuts
  /\ nSignOuts' = nSignOuts + 1
  /\ authed' = FALSE
  /\ user' = FALSE
  /\ sessions' = <<>>
  /\ currentSessionId' = NoSession
  /\ UNCHANGED <<isLoading, db, writes, sends, saves, fetches, nextId>>

\* ------------------------------------------------------------ bulk load
\* FetchResolve, were a read error to empty the list
FetchResolveClearsOnError(f) ==
  /\ fetches[f].pc = "sent"
  /\ \E error \in BOOLEAN :
       LET data == db IN
         /\ fetches' = [fetches EXCEPT
                          ![f].pc = IF error THEN "failed" ELSE "loaded"]
         /\ sessions' = IF error THEN <<>> ELSE data
         /\ currentSessionId' =
              IF ~error /\ Len(data) > 0 /\ fetches[f].cur = NoSession
                THEN data[1].id
                ELSE currentSessionId
  /\ UNCHANGED <<user, authed, isLoading, db, writes, sends, saves, nextId,
                 nSignOuts>>

\* fetchSessions: the await of the select query resumes, with an error or
\* with the rows of the table, most recently updated first
FetchResolve(f) ==
  /\ fetches[f].pc = "sent"
  /\ \E error \in BOOLEAN :
       LET data == db IN
         /\ fetches' = [fetches EXCEPT
                          ![f].pc = IF error THEN "failed" ELSE "loaded"]
         /\ IF error
              THEN UNCHANGED <<sessions, currentSessionId>>
              ELSE /\ sessions' = data
                   /\ currentSessionId' =
                        IF Len(data) > 0 /\ fetches[f].cur = NoSession
                          THEN data[1].id
                          ELSE currentSessionId
  /\ UNCHANGED <<user, authed, isLoading, db, writes, sends, saves, nextId,
                 nSignOuts>>

\* ------------------------------------------------- saveSessionToSupabase
\* The upsert call of saveSessionToSupabase, as issued.
IssuedWrite(session) ==
  [id |-> session.id, title |-> session.title, messages |-> session.messages,
   authed |-> authed]

\* ------------------------------------------------------------- new chat
\* NewChat, were it to append the new session at the end of the list
NewChatAppends ==
  \E n \in 1..MaxNewChats :
    /\ user
    /\ Events < MaxEvents
    /\ saves[n].pc = "none"
    /\ \A m \in 1..(n - 1) : saves[m].pc # "none"
    /\ LET newSession == ChatSession(nextId, NewChatTitle, <<>>) IN
         /\ currentSessionId' = nextId
         /\ sessions' = Append(sessions, newSession)
         /\ saves' = [saves EXCEPT ![n] =
                        [pc |-> "getUser", session |-> newSession]]
    /\ nextId' = nextId + 1
    /\ UNCHANGED <<user, authed, isLoading, db, writes, sends, fetches,
                   nSignOuts>>

\* handleNewChat; its save is started and not awaited
NewChat ==
  \E n \in 1..MaxNewChats :
    /\ user
    /\ Events < MaxEvents
    /\ saves[n].pc = "none"
    /\ \A m \in 1..(n - 1) : saves[m].pc # "none"
    /\ LET newSession == ChatSession(nextId, NewChatTitle, <<>>) IN
         /\ currentSessionId' = nextId
         /\ sessions' = <<newSession>> \o sessions
         /\ saves' = [saves EXCEPT ![n] =
                        [pc |-> "getUser", session |-> newSession]]
    /\ nextId' = nextId + 1
    /\ UNCHANGED <<user, authed, isLoading, db, writes, sends, fetches,
                   nSignOuts>>

\* saveSessionToSupabase of handleNewChat: await supabase.auth.getUser()
SaveGetUser(n) ==
  /\ saves[n].pc = "getUser"
  /\ IF authed
       THEN /\ saves' = [saves EXCEPT ![n].pc = "upsert"]
            /\ writes' = writes \cup {IssuedWrite(saves[n].session)}
       ELSE /\ saves' = [saves EXCEPT ![n] = [IdleSave EXCEPT !.pc = "done"]]
            /\ UNCHANGED writes
  /\ UNCHANGED <<user, authed, sessions, currentSessionId, isLoading, db,
                 sends, fetches, nextId, nSignOuts>>

\* saveSessionToSupabase of handleNewChat: the upsert resolves; an error is
\* logged and swallowed
SaveUpsert(n) ==
  /\ saves[n].pc = "upsert"
  /\ \E ok \in BOOLEAN :
       /\ db' = IF ok THEN Upsert(db, saves[n].session) ELSE db
  /\ saves' = [saves EXCEPT ![n] = [IdleSave EXCEPT !.pc = "done"]]
  /\ UNCHANGED <<user, authed, sessions, currentSessionId, isLoading, writes,
                 sends, fetches, nextId, nSignOuts>>

\* ---------------------------------------------------------- select
\* SelectSession, were it to move the selected session to the front
SelectSessionMovesToFront(id) ==
  /\ user
  /\ id \in Ids(sessions)
  /\ currentSessionId' = id
  /\ sessions' = <<Find(sessions, id)>> \o Without(sessions, id)
  /\ UNCHANGED <<user, authed, isLoading, db, writes, sends, saves, fetches,
                 nextId, nSignOuts>>

\* Sidebar onSelectSession
SelectSession(id) ==
  /\ user
  /\ id \in Ids(sessions)
  /\ currentSessionId' = id
  /\ UNCHANGED <<user, authed, sessions, isLoading, db, writes, sends, saves,
                 fetches, nextId, nSignOuts>>

\* ------------------------------------------------------ handleSendMessage
\* lines 148-170: builds userMessage, targetSession and updatedSession from
\* the invocation's closure `snap`, applies it and raises the loading flag
UpdatedSession(k, snap, activeSessionId, content) ==
  LET targetSession ==
        IF Has(snap, activeSessionId)
          THEN Find(snap, activeSessionId)
          ELSE ChatSession(activeSessionId, Slice30(content), <<>>)
  IN ChatSession(targetSession.id,
                 IF Len(targetSession.messages) = 0
                   THEN Slice30(content) ELSE targetSession.title,
                 Append(targetSession.messages, Message(k, "user", content)))

ApplyUserMessage(k, snap, activeSessionId, content) ==
  LET updatedSession == UpdatedSession(k, snap, activeSessionId, content) IN
    /\ sessions' = MapReplace(sessions, activeSessionId, updatedSession)
    /\ isLoading' = TRUE
    /\ sends' = [sends EXCEPT ![k] =
                   [pc |-> "awaiting", content |-> content,
                    activeSessionId |-> activeSessionId,
                    created |-> sends[k].created, snap |-> <<>>,
                    session |-> updatedSession, outcome |-> "none"]]

\* ChatInput onSend (disabled while isLoading) or a quick-start card
CanSend == user /\ (IF isLoading THEN CardsVisible ELSE TRUE)

\* handleSendMessage called with a session current: runs to the completion
\* request
SendMessage(k, content) ==
  /\ CanSend
  /\ Events < MaxEvents
  /\ currentSessionId # NoSession
  /\ sends[k].pc = "idle"
  /\ \A j \in 1..(k - 1) : sends[j].pc # "idle"
  /\ ApplyUserMessage(k, sessions, currentSessionId, content)
  /\ UNCHANGED <<user, authed, currentSessionId, db, writes, saves, fetches,
                 nextId, nSignOuts>>

\* handleSendMessage called with no session current: creates one and awaits
\* its save
SendMessageNew(k, content) ==
  /\ CanSend
  /\ Events < MaxEvents
  /\ currentSessionId = NoSession
  /\ sends[k].pc = "idle"
  /\ \A j \in 1..(k - 1) : sends[j].pc # "idle"
  /\ LET newSession ==
           ChatSession(nextId, Slice30(content) \o Ellipsis, <<>>) IN
       /\ sessions' = <<newSession>> \o sessions
       /\ currentSessionId' = nextId
       /\ sends' = [sends EXCEPT ![k] =
                      [pc |-> "createGetUser", content |-> content,
                       activeSessionId |-> nextId, created |-> TRUE,
                       snap |-> sessions,
                       session |-> newSession, outcome |-> "none"]]
  /\ nextId' = nextId + 1
  /\ UNCHANGED <<user, authed, isLoading, db, writes, saves, fetches,
                 nSignOuts>>

\* line 145, getUser resolves: the upsert is issued, or the save returns
\* and the handler goes on to apply the user message
SendCreateGetUser(k) ==
  /\ sends[k].pc = "createGetUser"
  /\ IF authed
       THEN /\ sends' = [sends EXCEPT ![k].pc = "createUpsert"]
            /\ writes' = writes \cup {IssuedWrite(sends[k].session)}
            /\ UNCHANGED <<sessions, isLoading>>
       ELSE /\ ApplyUserMessage(k, sends[k].snap, sends[k].activeSessionId,
                                sends[k].content)
            /\ UNCHANGED writes
  /\ UNCHANGED <<user, authed, currentSessionId, db, saves, fetches, nextId,
                 nSignOuts>>

\* SendCreateUpsert, were a failed write to end the handler
SendCreateUpsertBlocks(k) ==
  /\ sends[k].pc = "createUpsert"
  /\ \E ok \in BOOLEAN :
       IF ok
         THEN /\ db' = Upsert(db, sends[k].session)
              /\ ApplyUserMessage(k, sends[k].snap, sends[k].activeSessionId,
                                  sends[k].content)
         ELSE /\ sends' = [sends EXCEPT ![k].pc = "done",
                                        ![k].outcome = "failed",
                                        ![k].session = NullSession]
              /\ UNCHANGED <<db, sessions, isLoading>>
  /\ UNCHANGED <<user, authed, currentSessionId, writes, saves, fetches,
                 nextId, nSignOuts>>

\* line 145, the upsert resolves (error swallowed); the handler goes on
SendCreateUpsert(k) ==
  /\ sends[k].pc = "createUpsert"
  /\ \E ok \in BOOLEAN :
       /\ db' = IF ok THEN Upsert(db, sends[k].session) ELSE db
  /\ ApplyUserMessage(k, sends[k].snap, sends[k].activeSessionId,
                      sends[k].content)
  /\ UNCHANGED <<user, authed, currentSessionId, writes, saves, fetches,
                 nextId, nSignOuts>>

\* lines 173-189: sendMessageToGemini resolves with text
FinalSession(k, updatedSession) ==
  ChatSession(updatedSession.id, updatedSession.title,
              Append(updatedSession.messages,
                     Message(k, "assistant", ReplyText)))

CompletionSucceeds(k) ==
  /\ sends[k].pc = "awaiting"
  /\ LET finalSession == FinalSession(k, sends[k].session) IN
       /\ sessions' = MapReplace(sessions, sends[k].activeSessionId,
                                 finalSession)
       /\ sends' = [sends EXCEPT ![k].pc = "finalGetUser",
                                 ![k].session = finalSession,
                                 ![k].outcome = "ok"]
  /\ UNCHANGED <<user, authed, currentSessionId, isLoading, db, writes,
                 saves, fetches, nextId, nSignOuts>>

\* CompletionFails, were the catch block to append an assistant message
CompletionFailsAppends(k) ==
  /\ sends[k].pc = "awaiting"
  /\ isLoading' = FALSE
  /\ sessions' = MapReplace(sessions, sends[k].activeSessionId,
                            FinalSession(k, sends[k].session))
  /\ sends' = [sends EXCEPT ![k].pc = "done", ![k].outcome = "failed",
                            ![k].session = NullSession]
  /\ UNCHANGED <<user, authed, currentSessionId, db, writes, saves, fetches,
                 nextId, nSignOuts>>

\* CompletionFails, were setIsLoading(false) not in a finally block
CompletionFailsKeepsLoading(k) ==
  /\ sends[k].pc = "awaiting"
  /\ sends' = [sends EXCEPT ![k].pc = "done", ![k].outcome = "failed",
                            ![k].session = NullSession]
  /\ UNCHANGED <<user, authed, sessions, currentSessionId, isLoading, db,
                 writes, saves, fetches, nextId, nSignOuts>>

\* CompletionFails, were the catch block to save the session as it stands
CompletionFailsSaves(k) ==
  /\ sends[k].pc = "awaiting"
  /\ isLoading' = FALSE
  /\ writes' = writes \cup {IssuedWrite(sends[k].session)}
  /\ sends' = [sends EXCEPT ![k].pc = "done", ![k].outcome = "failed",
                            ![k].session = NullSession]
  /\ UNCHANGED <<user, authed, sessions, currentSessionId, db, saves,
                 fetches, nextId, nSignOuts>>

\* lines 190-194: sendMessageToGemini throws; catch, then finally
CompletionFails(k) ==
  /\ sends[k].pc = "awaiting"
  /\ isLoading' = FALSE
  /\ sends' = [sends EXCEPT ![k].pc = "done", ![k].outcome = "failed",
                            ![k].session = NullSession]
  /\ UNCHANGED <<user, authed, sessions, currentSessionId, db, writes, saves,
                 fetches, nextId, nSignOuts>>

\* SendFinalGetUser, were saveSessionToSupabase not to return when getUser
\* yields no user
SendFinalGetUserUnchecked(k) ==
  /\ sends[k].pc = "finalGetUser"
  /\ sends' = [sends EXCEPT ![k].pc = "finalUpsert"]
  /\ writes' = writes \cup {IssuedWrite(sends[k].session)}
  /\ UNCHANGED <<user, authed, sessions, currentSessionId, isLoading, db,
                 saves, fetches, nextId, nSignOuts>>

\* line 189, getUser resolves: the upsert is issued, or the save returns
\* and the finally block runs
SendFinalGetUser(k) ==
  /\ sends[k].pc = "finalGetUser"
  /\ IF authed
       THEN /\ sends' = [sends EXCEPT ![k].pc = "finalUpsert"]
            /\ writes' = writes \cup {IssuedWrite(sends[k].session)}
            /\ UNCHANGED isLoading
       ELSE /\ sends' = [sends EXCEPT ![k].pc = "done",
                                      ![k].session = NullSession]
            /\ isLoading' = FALSE
            /\ UNCHANGED writes
  /\ UNCHANGED <<user, authed, sessions, currentSessionId, db, saves,
                 fetches, nextId, nSignOuts>>

\* line 189, the upsert resolves (error swallowed); finally
SendFinalUpsert(k) ==
  /\ sends[k].pc = "finalUpsert"
  /\ \E ok \in BOOLEAN :
       /\ db' = IF ok THEN Upsert(db, sends[k].session) ELSE db
  /\ sends' = [sends EXCEPT ![k].pc = "done", ![k].session = NullSession]
  /\ isLoading' = FALSE
  /\ UNCHANGED <<user, authed, sessions, currentSessionId, writes, saves,
                 fetches, nextId, nSignOuts>>

\* --------------------------------------------------------- specifications
SendSteps ==
  \/ \E k \in 1..MaxSends, content \in Contents : SendMessage(k, content)
  \/ \E k \in 1..MaxSends, content \in Contents : SendMessageNew(k, content)
  \/ \E k \in 1..MaxSends : SendCreateGetUser(k)
  \/ \E k \in 1..MaxSends : SendCreateUpsert(k)
  \/ \E k \in 1..MaxSends : CompletionSucceeds(k)
  \/ \E k \in 1..MaxSends : CompletionFails(k)
  \/ \E k \in 1..MaxSends : SendFinalGetUser(k)
  \/ \E k \in 1..MaxSends : SendFinalUpsert(k)

SessionSteps ==
  \/ NewChat
  \/ \E n \in 1..MaxNewChats : SaveGetUser(n)
  \/ \E n \in 1..MaxNewChats : SaveUpsert(n)
  \/ \E id \in Ids(sessions) : SelectSession(id)

AuthSteps ==
  \/ AuthSignedIn
  \/ AuthSignedOut
  \/ \E f \in 1..MaxSignIns : FetchResolve(f)

Next == SendSteps \/ SessionSteps \/ AuthSteps

Spec == Init /\ [][Next]_vars

\* The signed-in session with no auth event and no bulk load in flight.
NextSends == SendSteps \/ SessionSteps

SpecSends == InitSends /\ [][NextSends]_vars

\* ---------------------------------------------------------------- claims
IsPrefix(a, b) == Len(a) <= Len(b) /\ SubSeq(b, 1, Len(a)) = a

Last(seq) == seq[Len(seq)]

Calls == 1..MaxSends

\* the calls that have finished on session id with the given outcome
CallsOn(id, outcome) ==
  {k \in Calls : /\ sends[k].pc = "done"
                 /\ sends[k].activeSessionId = id
                 /\ sends[k].outcome = outcome}

AllSendsSettled == \A k \in Calls : sends[k].pc \in {"idle", "done"}

UserMessageOf(k) == Message(k, "user", sends[k].content)
AssistantMessageOf(k) == Message(k, "assistant", ReplyText)

InSeq(x, seq) == \E i \in 1..Len(seq) : seq[i] = x

\* C1: with only sends, new chats and selects running, once every call has
\* finished each session holds exactly two messages per call on it whose
\* completion succeeded and one per call on it whose completion failed.
C1_CountPerCall ==
  AllSendsSettled =>
    \A i \in 1..Len(sessions) :
      Len(sessions[i].messages) =
        2 * Cardinality(CallsOn(sessions[i].id, "ok"))
          + Cardinality(CallsOn(sessions[i].id, "failed"))

\* C2: in every step, each session listed before and after keeps its earlier
\* messages as a prefix of its later messages.
C2_AppendOnly ==
  [][\A i \in 1..Len(sessions), j \in 1..Len(sessions') :
       sessions[i].id = sessions'[j].id =>
         IsPrefix(sessions[i].messages, sessions'[j].messages)]_vars

\* C3: in every step, each session that holds at least one message and is
\* still listed afterwards keeps its title.
C3_TitleFixed ==
  [][\A i \in 1..Len(sessions), j \in 1..Len(sessions') :
       (sessions[i].id = sessions'[j].id /\ Len(sessions[i].messages) >= 1)
         => sessions'[j].title = sessions[i].title]_vars

\* C4: while signed out, the session list is empty and no session is
\* current.
C4_SignedOutCleared ==
  ~user => (sessions = <<>> /\ currentSessionId = NoSession)

\* Every place a session value lives: the list, the rows, the issued
\* writes and the sessions held by running handlers.
MessagesEverywhere ==
  {sessions[i].messages : i \in 1..Len(sessions)}
    \cup {db[i].messages : i \in 1..Len(db)}
    \cup {w.messages : w \in writes}
    \cup {sends[k].session.messages : k \in Calls}
    \cup {saves[n].session.messages : n \in 1..MaxNewChats}

FailsNow(k) == sends[k].pc = "awaiting" /\ sends'[k].outcome = "failed"

ScenarioTitle(content) ==
  IF Len(content) <= TitleLen THEN content
  ELSE SubSeq(content, 1, TitleLen) \o Ellipsis

\* call k is the only call so far and created the first session ever
FirstSendAlone(k) ==
  /\ sends[k].created
  /\ sends[k].activeSessionId = 1
  /\ \A j \in Calls \ {k} : sends[j].pc = "idle"

\* C6: for a send issued with no sessions and none current, once its user
\* message is applied the created session has the scenario's title and
\* messages [user msg], and after the completion succeeds [user msg,
\* assistant msg].
C6_FirstSendScenario ==
  \A k \in Calls :
    (FirstSendAlone(k) /\ Has(sessions, 1)) =>
      /\ sends[k].pc = "awaiting" =>
           /\ Find(sessions, 1).title = ScenarioTitle(sends[k].content)
           /\ Find(sessions, 1).messages = <<UserMessageOf(k)>>
      /\ sends[k].outcome = "ok" =>
           /\ Find(sessions, 1).title = ScenarioTitle(sends[k].content)
           /\ Find(sessions, 1).messages =
                <<UserMessageOf(k), AssistantMessageOf(k)>>

\* C7: with no sign-out so far, the step in which a call applies its user
\* message leaves a session with the call's target id in the list, holding
\* that message; the step in which its completion succeeds leaves it
\* holding the assistant message too.
C7_SendReflected ==
  [][\A k \in Calls :
       /\ (nSignOuts' = 0 /\ sends[k].pc # "awaiting"
             /\ sends'[k].pc = "awaiting") =>
            /\ Has(sessions', sends'[k].activeSessionId)
            /\ InSeq(Message(k, "user", sends'[k].content),
                     Find(sessions', sends'[k].activeSessionId).messages)
       /\ (nSignOuts' = 0 /\ sends[k].pc = "awaiting"
             /\ sends'[k].outcome = "ok") =>
            /\ Has(sessions', sends'[k].activeSessionId)
            /\ InSeq(AssistantMessageOf(k),
                     Find(sessions', sends'[k].activeSessionId).messages)]_vars

\* C8: a selectSession(id) step leaves current = id and changes neither the
\* session list (order, messages, titles) nor any other state; with no bulk
\* load running, every step that changes the current id without creating a
\* session is such a step.
C8_SelectOnlyCurrent ==
  [][/\ \A id \in Ids(sessions) :
          SelectSession(id) =>
            /\ currentSessionId' = id
            /\ sessions' = sessions
            /\ <<isLoading, db, writes, sends, saves>>'
                 = <<isLoading, db, writes, sends, saves>>
     /\ (currentSessionId' # currentSessionId /\ nextId' = nextId) =>
          /\ currentSessionId' \in Ids(sessions)
          /\ sessions' = sessions]_vars

\* A new chat was created and, before its write began, another listed
\* session was selected while a send awaits its completion.
C8_Witness ==
  /\ Len(sessions) >= 2
  /\ \E n \in 1..MaxNewChats :
       saves[n].pc = "getUser" /\ sessions[1] = saves[n].session
  /\ currentSessionId \in Ids(sessions) \ {sessions[1].id}
  /\ \E k \in Calls : sends[k].pc = "awaiting"

Creates == nextId' = nextId + 1

\* C9: a step that creates a session puts it first in the list with a fresh
\* id and no messages, keeps the earlier sessions after it in order and
\* makes it current, before any write of it is issued; handleNewChat titles
\* it 'New Chat' (a send titles it with its provisional title).  The steps
\* that resolve the write, stored or failed, leave list and current id
\* alone.
C9_CreateSession ==
  [][/\ Creates =>
          /\ nextId \notin Ids(sessions)
          /\ sessions' = <<sessions'[1]>> \o sessions
          /\ sessions'[1].id = nextId
          /\ sessions'[1].messages = <<>>
          /\ currentSessionId' = nextId
          /\ db' = db /\ writes' = writes
          /\ saves' # saves => sessions'[1].title = NewChatTitle
          /\ \A k \in Calls :
               sends'[k] # sends[k] =>
                 sessions'[1].title = Slice30(sends'[k].content) \o Ellipsis
     /\ (~Creates /\ saves' # saves) =>
          (sessions' = sessions /\ currentSessionId' = currentSessionId)]_vars

\* handleNewChat has put its session in front of an earlier one and made it
\* current; its write is not issued yet.
C9_Witness ==
  /\ Len(sessions) >= 2
  /\ sessions[1].title = NewChatTitle
  /\ sessions[1].messages = <<>>
  /\ currentSessionId = sessions[1].id
  /\ \E n \in 1..MaxNewChats :
       saves[n].pc = "getUser" /\ saves[n].session = sessions[1]

\* C10 as stated: whenever no send awaits a completion, the loading flag is
\* false.
C10_IdleWhenNoneAwaiting ==
  (\A k \in Calls : sends[k].pc # "awaiting") => ~isLoading

\* between setIsLoading(true) and the finally block
Flagged(k) == sends[k].pc \in {"awaiting", "finalGetUser", "finalUpsert"}

\* C10 amended: a send leaves awaiting-response only as completed or failed;
\* it clears the loading flag when it finishes, right away on failure and
\* after its final save on success; whenever no send is between raising
\* the flag and finishing, the flag is false.
C10_ReturnsToIdle ==
  /\ [][\A k \in Calls :
          /\ (sends[k].pc = "awaiting" /\ sends'[k].pc # "awaiting") =>
               \/ sends'[k].pc = "finalGetUser" /\ sends'[k].outcome = "ok"
               \/ sends'[k].pc = "done" /\ sends'[k].outcome = "failed"
                    /\ ~isLoading'
          /\ (Flagged(k) /\ sends'[k].pc = "done") => ~isLoading']_vars
  /\ []((\A k \in Calls : ~Flagged(k)) => ~isLoading)

\* One send has completed and one has failed, and the flag is down.
C10_Witness ==
  /\ \E k \in Calls : sends[k].pc = "done" /\ sends[k].outcome = "ok"
  /\ \E k \in Calls : sends[k].pc = "done" /\ sends[k].outcome = "failed"
  /\ ~isLoading

\* C11: every upsert was issued while an authenticated identity was
\* available, and a step taken while signed out issues none.
C11_NoWriteSignedOut ==
  /\ [][(~authed \/ ~authed') => writes' = writes]_vars
  /\ [](\A w \in writes : w.authed)

\* A send that started signed in has completed after sign-out, and no write
\* carries its assistant message.
C11_Witness ==
  /\ ~authed
  /\ \E k \in Calls :
       /\ sends[k].pc = "done"
       /\ sends[k].outcome = "ok"
       /\ \A w \in writes : ~InSeq(AssistantMessageOf(k), w.messages)

\* the session a creating call applies, and the one it ends with
CreatedWithUser(k) ==
  ChatSession(sends[k].activeSessionId, Slice30(sends[k].content),
              <<UserMessageOf(k)>>)
CreatedWithReply(k) ==
  ChatSession(sends[k].activeSessionId, Slice30(sends[k].content),
              <<UserMessageOf(k), AssistantMessageOf(k)>>)

\* C12: when the write of a session created by a send resolves, stored or
\* failed, or is skipped, the send puts its user message in the session,
\* raises the flag and requests the completion; when the completion
\* succeeds it puts user and assistant message in the session.  The list
\* after either step is the same whatever became of the write.
C12_WriteFailureDoesNotBlock ==
  [][\A k \in Calls :
       /\ (sends[k].pc \in {"createGetUser", "createUpsert"}
             /\ sends'[k].pc # sends[k].pc) =>
            \/ sends[k].pc = "createGetUser" /\ sends'[k].pc = "createUpsert"
                 /\ sessions' = sessions
            \/ /\ sends'[k].pc = "awaiting"
               /\ isLoading'
               /\ sessions' = MapReplace(sessions, sends[k].activeSessionId,
                                         CreatedWithUser(k))
       /\ (sends[k].created /\ sends[k].pc = "awaiting"
             /\ sends'[k].outcome = "ok") =>
            sessions' = MapReplace(sessions, sends[k].activeSessionId,
                                   CreatedWithReply(k))]_vars

\* The write of a created session was issued and not stored, and the
\* session holds the send's user and assistant message.
C12_Witness ==
  \E k \in Calls :
    /\ sends[k].created
    /\ sends[k].pc = "finalGetUser"
    /\ \E w \in writes : w.id = sends[k].activeSessionId
    /\ ~Has(db, sends[k].activeSessionId)
    /\ Has(sessions, sends[k].activeSessionId)
    /\ Find(sessions, sends[k].activeSessionId) = CreatedWithReply(k)

LoadFails(f) == fetches[f].pc = "sent" /\ fetches'[f].pc = "failed"

LoadSucceeds(f) == fetches[f].pc = "sent" /\ fetches'[f].pc = "loaded"

\* C13: the step in which a bulk load resolves with an error leaves the
\* session list and the current id as they were.
C13_FailedLoadUnchanged ==
  [][\A f \in 1..MaxSignIns :
       LoadFails(f) =>
         (sessions' = sessions /\ currentSessionId' = currentSessionId)]_vars

\* A bulk load has failed and the list still holds the current session.
C13_Witness ==
  /\ \E f \in 1..MaxSignIns : fetches[f].pc = "failed"
  /\ sessions # <<>>
  /\ HasCurrentSession

\* C14: the current id, when set, is the id of exactly one listed session.
C14_CurrentIsListed ==
  currentSessionId # NoSession =>
    Cardinality({i \in 1..Len(sessions) :
                   sessions[i].id = currentSessionId}) = 1

\* call k applies its user message, or its completion succeeds
SendUpdates(k) ==
  \/ sends[k].pc # "awaiting" /\ sends'[k].pc = "awaiting"
  \/ sends[k].pc = "awaiting" /\ sends'[k].outcome = "ok"

\* C15: a step in which a send applies its user message or its assistant
\* message keeps the number and the order of the listed sessions and leaves
\* every session other than its target as it was.
C15_ReplaceInPlace ==
  [][\A k \in Calls :
       SendUpdates(k) =>
         /\ Len(sessions') = Len(sessions)
         /\ \A i \in 1..Len(sessions) :
              /\ sessions'[i].id = sessions[i].id
              /\ sessions[i].id # sends'[k].activeSessionId =>
                   sessions'[i] = sessions[i]]_vars

\* A send's reply was put in a session that is second in the list, behind
\* a session created later.
C15_Witness ==
  /\ Len(sessions) >= 2
  /\ \E k \in Calls :
       /\ sends[k].outcome = "ok"
       /\ sessions[2].id = sends[k].activeSessionId
       /\ InSeq(AssistantMessageOf(k), sessions[2].messages)
       /\ sessions[1].id > sessions[2].id

\* C16: whenever a send awaits its completion, the loading flag is true.
C16_LoadingWhileOutstanding ==
  (\E k \in Calls : sends[k].pc = "awaiting") => isLoading

\* C18: a bulk load that succeeds while a session is current leaves the
\* current id as it is.
C18_LoadKeepsCurrent ==
  [][\A f \in 1..MaxSignIns :
       (LoadSucceeds(f) /\ currentSessionId # NoSession) =>
         currentSessionId' = currentSessionId]_vars

\* C17: every issued write and every stored row carries no messages or a
\* sequence that ends with an assistant message, and the step in which a
\* completion fails issues no write and stores nothing.
C17_WritesEndWithReply ==
  /\ [](\A msgs \in {w.messages : w \in writes}
                      \cup {db[i].messages : i \in 1..Len(db)} :
          msgs = <<>> \/ Last(msgs).role = "assistant")
  /\ [][\A k \in Calls :
          FailsNow(k) => (writes' = writes /\ db' = db)]_vars

\* One send's user and assistant message were written, and the user
\* message of a failed send is in the list and in no write.
C17_Witness ==
  /\ \E w \in writes : w.messages # <<>>
  /\ \E k \in Calls :
       /\ sends[k].outcome = "failed"
       /\ \E i \in 1..Len(sessions) :
            InSeq(UserMessageOf(k), sessions[i].messages)
       /\ \A w \in writes : ~InSeq(UserMessageOf(k), w.messages)

====
